---- MODULE Spec2Model ----
(***************************************************************************)
(* Model of the polymarket-market-maker front-running strategy:            *)
(*   - FrontRunStrategy (strategies/front_run_strategy.py): the decision   *)
(*     state machine with one remembered previous state and one pending    *)
(*     OrderReset;                                                         *)
(*   - MarketState (types.py): best limit prices of the two outcome books; *)
(*   - StrategyManager (strategy.py): one reconciliation tick;             *)
(*   - AppFrontRun (app_front_run.py): batch hand-over and shutdown.       *)
(* Prices are in cents (0.01 = 1, 1.0 = 100), timestamps in seconds.       *)
(***************************************************************************)
EXTENDS Integers, Sequences, FiniteSets, TLC

VARIABLES
    state,          \* FrontRunStrategy.state: remembered SportsStrategyState
    reset,          \* FrontRunStrategy.reset: pending OrderReset
    file_len,       \* number of records appended to the pickle file
    ret_place,      \* orders_to_place returned by the last get_orders call
    ret_cancel,     \* orders_to_cancel returned by the last get_orders call
    favored,        \* favored_token computed by the last get_orders call
    arg,            \* new_state as it was passed to the last get_orders call
    audit_file,     \* records of the pickle file, oldest first
    score_feed,     \* ScoreFeed: driver, last get_scoreboard call and its outcome
    sig_old,        \* _get_favored_token: old_state argument
    sig_new,        \* _get_favored_token: new_state argument
    sig_result,     \* _get_favored_token: outcome
    mgr_tick,       \* StrategyManager.synchronize: record of the last tick
    book_ms,        \* MarketState under query
    book_query,     \* get_bids / get_asks / get_best_limit_price: last query
    app,            \* the keeper: snapshot of the order manager, last operation
    driver_init,    \* ScoreFeed.initialize_driver: the call in progress
    race            \* two callers inside get_orders of one strategy instance

svars == <<state, reset, file_len, ret_place, ret_cancel, favored, arg>>
fvars == <<audit_file, score_feed>>
xvars == <<driver_init, race>>
gvars == <<sig_old, sig_new, sig_result>>
mvars == <<mgr_tick>>
bvars == <<book_ms, book_query>>
avars == <<app>>
vars == <<svars, gvars, mvars, bvars, avars, fvars, xvars>>

----------------------------------------------------------------------------
(* Bounds of the model *)

MaxScore == 2
MaxSigScore == 22
MaxDelta == 3
MaxBook == 2
MaxOwn == 3
MaxTimeIdx == 4
TimeUnit == 5

----------------------------------------------------------------------------
(* Program constants *)

order_size == 10
reset_delay == 10
MinDiffInDiff == 2
ThresholdNum == 1
ThresholdDen == 10
FloorPrice == 1
FallbackPrice == 99
One == 100

None == [none |-> TRUE]
NoToken == "None"
Tokens == {"A", "B"}

----------------------------------------------------------------------------
(* Input domains *)

GameTimes == {<<"7:42", "3rd">>, <<"Final">>}
SigGameTimes == GameTimes \cup {<<"Final", "OT">>}

ScoreBoards(scores, times) ==
    [away_score : scores, home_score : scores, game_time : times]

(* Scores fed to the strategy tick by tick: level or MaxScore points up. *)
TickScores == {0, MaxScore}

(* Token-A book sides: empty, or MaxBook levels, best price first (asks
   ascending from 60 cents, bids descending from 40 cents). *)
AskBook == [i \in 1..MaxBook |-> [price |-> 50 + 10 * i, size |-> 5]]
BidBook == [i \in 1..MaxBook |-> [price |-> 50 - 10 * i, size |-> 5]]
AskBooks == {<<>>, AskBook}
BidBooks == {<<>>, BidBook}

OwnOrder(i, t) == [id |-> i, token |-> t]
(* Own-order snapshots: no open order, or MaxOwn open orders alternating A, B. *)
OwnOrderLists ==
    {<<>>, [i \in 1..MaxOwn |-> OwnOrder(i, IF i % 2 = 1 THEN "A" ELSE "B")]}

Timestamps == {k * TimeUnit : k \in 0..MaxTimeIdx}

----------------------------------------------------------------------------
(* Outcomes: a call either returns a value or raises; an optional scalar is
   None or Some(x). *)

Ret(x) == [ret |-> x]
Raise(e) == [raise |-> e]
Raised(r) == "raise" \in DOMAIN r
Some(x) == [some |-> x]

----------------------------------------------------------------------------
(* types.py: MarketState *)

Complement(book) ==
    [i \in 1..Len(book) |-> [price |-> One - book[i].price, size |-> book[i].size]]

GetBidsOwnSide(ms, token) ==
    IF token = "A" THEN Ret(ms.away_team_bids)
    ELSE IF token = "B" THEN Ret(Complement(ms.away_team_bids))
    ELSE Raise("ValueError")

GetBids(ms, token) ==
    IF token = "A" THEN Ret(ms.away_team_bids)
    ELSE IF token = "B" THEN Ret(Complement(ms.away_team_asks))
    ELSE Raise("ValueError")

GetAsksLenient(ms, token) ==
    IF token = "A" THEN Ret(ms.away_team_asks)
    ELSE IF token = "B" THEN Ret(Complement(ms.away_team_bids))
    ELSE Ret(<<>>)

GetAsks(ms, token) ==
    IF token = "A" THEN Ret(ms.away_team_asks)
    ELSE IF token = "B" THEN Ret(Complement(ms.away_team_bids))
    ELSE Raise("ValueError")

GetMaxBid(ms, token) ==
    LET bids == GetBids(ms, token)
    IN  IF Raised(bids) THEN bids
        ELSE IF bids.ret = <<>> THEN Ret(None)
        ELSE Ret(Some(bids.ret[1].price))

GetMinAskLast(ms, token) ==
    LET asks == GetAsks(ms, token)
    IN  IF Raised(asks) THEN asks
        ELSE IF asks.ret = <<>> THEN Ret(None)
        ELSE Ret(Some(asks.ret[Len(asks.ret)].price))

GetMinAsk(ms, token) ==
    LET asks == GetAsks(ms, token)
    IN  IF Raised(asks) THEN asks
        ELSE IF asks.ret = <<>> THEN Ret(None)
        ELSE Ret(Some(asks.ret[1].price))

GetBestLimitPrice(ms, token, side) ==
    IF side = "BUY" THEN GetMinAsk(ms, token)
    ELSE IF side = "SELL" THEN GetMaxBid(ms, token)
    ELSE Ret(None)

----------------------------------------------------------------------------
(* strategies/front_run_strategy.py: FrontRunStrategy *)

Contains(game_time, word) == \E i \in 1..Len(game_time) : game_time[i] = word

Abs(x) == IF x < 0 THEN -x ELSE x

Div(n, d) == IF d = 0 THEN Raise("ZeroDivisionError") ELSE Ret([num |-> n, den |-> d])

DiffPctUnguarded(diff_in_diff, old_diff) == Div(diff_in_diff, old_diff)

DiffPct(diff_in_diff, old_diff) ==
    IF old_diff > 0 THEN Div(diff_in_diff, old_diff) ELSE Ret([num |-> 1, den |-> 1])

PctPassesStrict(pct) == pct.num * ThresholdDen > ThresholdNum * pct.den

PctPasses(pct) == pct.num * ThresholdDen >= ThresholdNum * pct.den

FinalWinnerTiesA(sb) == IF sb.away_score >= sb.home_score THEN "A" ELSE "B"

FinalWinner(sb) == IF sb.away_score > sb.home_score THEN "A" ELSE "B"

ScoringSideHomeFirst(away_diff, home_diff) ==
    IF home_diff > 0 THEN "B"
    ELSE IF away_diff > 0 THEN "A"
    ELSE NoToken

ScoringSide(away_diff, home_diff) ==
    IF away_diff > 0 THEN "A"
    ELSE IF home_diff > 0 THEN "B"
    ELSE NoToken

SignalRule(old_state, new_state) ==
    LET old == old_state.score_board
        new == new_state.score_board
        away_diff == new.away_score - old.away_score
        home_diff == new.home_score - old.home_score
        old_diff == Abs(old.away_score - old.home_score)
        new_diff == Abs(new.away_score - new.home_score)
        diff_in_diff == Abs(new_diff - old_diff)
        diff_pct == DiffPct(diff_in_diff, old_diff)
    IN  IF Raised(diff_pct) THEN diff_pct
        ELSE IF diff_in_diff >= MinDiffInDiff /\ PctPasses(diff_pct.ret)
        THEN Ret(ScoringSide(away_diff, home_diff))
        ELSE Ret(NoToken)

GetFavoredTokenFinalFirst(old_state, new_state) ==
    IF new_state = None THEN Ret(NoToken)
    ELSE IF Contains(new_state.score_board.game_time, "Final")
    THEN Ret(FinalWinner(new_state.score_board))
    ELSE IF old_state = None THEN Ret(NoToken)
    ELSE SignalRule(old_state, new_state)

GetFavoredTokenAlwaysFinal(old_state, new_state) ==
    IF old_state = None \/ new_state = None THEN Ret(NoToken)
    ELSE Ret(FinalWinner(new_state.score_board))

GetFavoredToken(old_state, new_state) ==
    IF old_state = None \/ new_state = None THEN Ret(NoToken)
    ELSE IF Contains(new_state.score_board.game_time, "Final")
    THEN Ret(FinalWinner(new_state.score_board))
    ELSE SignalRule(old_state, new_state)

Order(size, price, side, token, order_type) ==
    [size |-> size, price |-> price, side |-> side, token |-> token,
     order_type |-> order_type]

BuildOrderAlwaysFallback(st, token, side, default_to_FOK) ==
    LET best == GetBestLimitPrice(st.market_state, token, side)
    IN  IF Raised(best) THEN best
        ELSE IF side = "SELL"
        THEN Ret(Order(order_size, FloorPrice, side, token, "FOK"))
        ELSE IF best.ret = None
        THEN Ret(Order(order_size, FallbackPrice, side, token, "FOK"))
        ELSE Ret(Order(order_size, best.ret.some, side, token, "GTC"))

BuildOrder(st, token, side, default_to_FOK) ==
    LET best == GetBestLimitPrice(st.market_state, token, side)
    IN  IF Raised(best) THEN best
        ELSE IF side = "SELL"
        THEN Ret(Order(order_size, FloorPrice, side, token, "FOK"))
        ELSE IF best.ret = None
        THEN IF default_to_FOK
             THEN Ret(Order(order_size, FallbackPrice, side, token, "FOK"))
             ELSE Ret(None)
        ELSE Ret(Order(order_size, best.ret.some, side, token, "GTC"))

OrderReset(trigger_timestamp, token, size) ==
    [trigger_timestamp |-> trigger_timestamp, token |-> token, size |-> size]

OrdersOnTokenFirst(orders, token) ==
    LET on == SelectSeq(orders, LAMBDA o : o.token = token)
    IN  IF on = <<>> THEN <<>> ELSE <<on[1]>>

OrdersOnToken(orders, token) ==
    SelectSeq(orders, LAMBDA o : o.token = token)

ConsumeResetCancelAll(r, st) ==
    [place |-> <<BuildOrder(st, r.token, "SELL", TRUE).ret>>,
     cancel |-> st.market_state.own_orders.orders]

ConsumeReset(r, st) ==
    [place |-> <<BuildOrder(st, r.token, "SELL", TRUE).ret>>,
     cancel |-> OrdersOnToken(st.market_state.own_orders.orders, r.token)]

MergeTriggerEarlier(pending, candidate) ==
    IF pending.trigger_timestamp < candidate.trigger_timestamp
    THEN pending.trigger_timestamp
    ELSE candidate.trigger_timestamp

MergeTrigger(pending, candidate) == candidate.trigger_timestamp

MergeResetKeepsSize(pending, candidate) ==
    OrderReset(MergeTrigger(pending, candidate), candidate.token, pending.size)

MergeReset(pending, candidate) ==
    OrderReset(MergeTrigger(pending, candidate), candidate.token,
               pending.size + candidate.size)

ResetDueStrict(r, new_state) ==
    r # None /\ r.trigger_timestamp < new_state.market_state.timestamp

ResetDueAlways(r, new_state) == r # None

ResetDue(r, new_state) ==
    r # None /\ r.trigger_timestamp <= new_state.market_state.timestamp

ResetFromNewOrderNoDelay(new_state, new_order) ==
    OrderReset(new_state.market_state.timestamp, new_order.token, new_order.size)

(* Lines 169-174: the candidate reset of a built BUY. *)
ResetFromNewOrder(new_state, new_order) ==
    OrderReset(new_state.market_state.timestamp + reset_delay,
               new_order.token, new_order.size)

HandleSignalFlattenFirst(pending, new_state, favored_token) ==
    LET unchanged == [place |-> <<>>, cancel |-> <<>>, reset |-> pending]
    IN  IF favored_token = NoToken THEN unchanged
        ELSE LET new_order == BuildOrder(new_state, favored_token, "BUY", FALSE).ret
             IN  IF new_order = None THEN unchanged
                 ELSE LET reset_from_new_order == ResetFromNewOrder(new_state, new_order)
                      IN  IF pending # None
                          THEN IF pending.token # favored_token
                               THEN LET early == ConsumeReset(pending, new_state)
                                    IN  [place |-> early.place \o <<new_order>>,
                                         cancel |-> early.cancel,
                                         reset |-> reset_from_new_order]
                               ELSE [place |-> <<new_order>>, cancel |-> <<>>,
                                     reset |-> MergeReset(pending, reset_from_new_order)]
                          ELSE [place |-> <<new_order>>, cancel |-> <<>>,
                                reset |-> reset_from_new_order]

(* Lines 146-199: the signal branch. Yields the intents accumulated so far and
   the pending reset after signal handling. *)
HandleSignal(pending, new_state, favored_token) ==
    LET unchanged == [place |-> <<>>, cancel |-> <<>>, reset |-> pending]
    IN  IF favored_token = NoToken THEN unchanged
        ELSE LET new_order == BuildOrder(new_state, favored_token, "BUY", FALSE).ret
             IN  IF new_order = None THEN unchanged
                 ELSE LET reset_from_new_order == ResetFromNewOrder(new_state, new_order)
                      IN  IF pending # None
                          THEN IF pending.token # favored_token
                               THEN LET early == ConsumeReset(pending, new_state)
                                    IN  [place |-> <<new_order>> \o early.place,
                                         cancel |-> early.cancel,
                                         reset |-> reset_from_new_order]
                               ELSE [place |-> <<new_order>>, cancel |-> <<>>,
                                     reset |-> MergeReset(pending, reset_from_new_order)]
                          ELSE [place |-> <<new_order>>, cancel |-> <<>>,
                                reset |-> reset_from_new_order]

HandleExpiryKeepsReset(sig, new_state) ==
    IF ResetDue(sig.reset, new_state)
    THEN LET timed == ConsumeReset(sig.reset, new_state)
         IN  [place |-> sig.place \o timed.place,
              cancel |-> sig.cancel \o timed.cancel,
              reset |-> sig.reset]
    ELSE sig

(* Lines 213-230: natural expiry of the reset left pending by signal handling. *)
HandleExpiry(sig, new_state) ==
    IF ResetDue(sig.reset, new_state)
    THEN LET timed == ConsumeReset(sig.reset, new_state)
         IN  [place |-> sig.place \o timed.place,
              cancel |-> sig.cancel \o timed.cancel,
              reset |-> None]
    ELSE sig

(* MarketState.set_orders_to_place / set_orders_to_cancel (lines 234-235).
   types.py defines neither method on MarketState (get_orders targets a
   revision of the class that has them); they are taken to record the two
   lists on the remembered state's market_state and to return normally. *)
SetOrders(st, place, cancel) ==
    [st EXCEPT !.market_state.orders_to_place = place,
               !.market_state.orders_to_cancel = cancel]

UpdateStateOnlyOnIntent(old_state, new_state, place, cancel) ==
    IF place = <<>> /\ cancel = <<>> THEN old_state
    ELSE SetOrders(new_state, place, cancel)

(* Lines 233-235: self.state is bound to the object passed in, whatever the
   tick decided, and the two lists are recorded on it. *)
UpdateState(old_state, new_state, place, cancel) ==
    SetOrders(new_state, place, cancel)

(* Line 238: return orders_to_place, orders_to_cancel *)
GetOrdersReturn(orders_to_place, orders_to_cancel) ==
    <<orders_to_place, orders_to_cancel>>

SaveStateToFileOverwrite(file, st) == <<st>>

(* save_state_to_file (lines 56-61): the file is opened in append mode and one
   pickle record is written. *)
SaveStateToFile(file, st) == Append(file, st)

(* _initialize_json (lines 47-54): a file created by the constructor starts
   with one record, the pickled empty list. *)
EmptyListRecord == [list |-> <<>>]

----------------------------------------------------------------------------
(* The strategy driven by a sequence of SportsStrategyState inputs, as in
   tests/backtest.py run_backtest. *)

NewStates(ts) ==
    [market_state :
        [timestamp : {ts},
         away_team_bids : BidBooks,
         away_team_asks : AskBooks,
         own_orders : [orders : OwnOrderLists],
         orders_to_place : {<<>>},
         orders_to_cancel : {<<>>}],
     score_board : ScoreBoards(TickScores, GameTimes)]

(* Timestamps come from datetime.now() (strategy.py line 162): each tick is
   later than the one before. *)
NextTimestamps ==
    IF state = None THEN Timestamps
    ELSE {t \in Timestamps : t > state.market_state.timestamp}

SInit ==
    /\ state = None
    /\ reset = None
    /\ file_len = 0
    /\ ret_place = <<>>
    /\ ret_cancel = <<>>
    /\ favored = NoToken
    /\ arg = None

GetOrders(new_state) ==
    \E fav \in {GetFavoredToken(state, new_state).ret} :
    \E out \in {HandleExpiry(HandleSignal(reset, new_state, fav), new_state)} :
        /\ favored' = fav
        /\ reset' = out.reset
        /\ state' = UpdateState(state, new_state, out.place, out.cancel)
        /\ arg' = new_state
        /\ file_len' = file_len + 1
        /\ ret_place' = out.place
        /\ ret_cancel' = out.cancel

Tick ==
    /\ \E ts \in NextTimestamps :
         \E new_state \in NewStates(ts) : GetOrders(new_state)
    /\ UNCHANGED <<gvars, mvars, bvars, avars, fvars, xvars>>

GInit ==
    /\ sig_old = None
    /\ sig_new = None
    /\ sig_result = Ret(NoToken)

MInit == mgr_tick = None

BIdle == book_ms = None /\ book_query = None

AIdle == app = None

FIdle == audit_file = <<>> /\ score_feed = None

XIdle == driver_init = None /\ race = None

Init == SInit /\ GInit /\ MInit /\ BIdle /\ AIdle /\ FIdle /\ XIdle

Next == Tick

Spec == Init /\ [][Next]_vars

----------------------------------------------------------------------------
(* _get_favored_token on its own: every remembered score board up to
   MaxSigScore against every new board within -1..MaxDelta points of it. *)

LiveTime == <<"7:42", "3rd">>

SigState(sb) == [score_board |-> sb]

SigOldBoards == ScoreBoards(0..MaxSigScore, {LiveTime})

SigNewBoards(old) ==
    {sb \in [away_score : (old.away_score - 1)..(old.away_score + MaxDelta),
             home_score : (old.home_score - 1)..(old.home_score + MaxDelta),
             game_time : SigGameTimes] :
        sb.away_score >= 0 /\ sb.home_score >= 0}

SigBase == [away_score |-> 0, home_score |-> 0, game_time |-> LiveTime]

SigInit ==
    /\ SInit /\ MInit /\ BIdle /\ AIdle /\ FIdle /\ XIdle
    /\ sig_old \in {None} \cup {SigState(sb) : sb \in SigOldBoards}
    /\ sig_new = None
    /\ sig_result = Ret(NoToken)

FavoredCall ==
    /\ sig_new = None
    /\ \E sb \in SigNewBoards(IF sig_old = None THEN SigBase ELSE sig_old.score_board) :
         /\ sig_new' = SigState(sb)
         /\ sig_result' = GetFavoredToken(sig_old, SigState(sb))
    /\ UNCHANGED <<sig_old, svars, mvars, bvars, avars, fvars, xvars>>

SigNext == FavoredCall

SpecSignal == SigInit /\ [][SigNext]_vars

----------------------------------------------------------------------------
(* strategy.py: StrategyManager, one reconciliation tick. The strategy is the
   abstract BaseStrategy: get_orders(market_state) returns a pair or raises.
   The manager is modelled against the interfaces its text is written for: a
   strategy object and a MarketState constructor that accept what lines
   161-169 and 198 pass them. The cancel_orders / place_orders calls of
   lines 203-204 are commented out in the source, so a tick dispatches
   nothing. *)

SortByPriceUnsorted(book, reverse) == book

(* list.sort(key=price): stable insertion sort, descending when reverse. *)
RECURSIVE SortByPrice(_, _)
SortByPrice(book, reverse) ==
    IF book = <<>> THEN <<>>
    ELSE LET n == Len(book)
             last == book[n]
             sorted == SortByPrice(SubSeq(book, 1, n - 1), reverse)
             Before(e) == IF reverse THEN e.price >= last.price ELSE e.price <= last.price
             k == Cardinality({i \in 1..Len(sorted) : \A j \in 1..i : Before(sorted[j])})
         IN  SubSeq(sorted, 1, k) \o <<last>> \o SubSeq(sorted, k + 1, Len(sorted))

EmptyBook == [bids |-> <<>>, asks |-> <<>>]

GetMarketOrdersPropagates(fetch) ==
    IF Raised(fetch) THEN fetch
    ELSE IF fetch = None THEN Ret(EmptyBook)
    ELSE Ret([bids |-> SortByPrice(fetch.ret.bids, TRUE),
              asks |-> SortByPrice(fetch.ret.asks, FALSE)])

(* get_market_orders (lines 85-121): fetch is the outcome of the exchange's
   get_order_book: it raised, returned nothing (None) or returned a book. *)
GetMarketOrders(fetch) ==
    IF Raised(fetch) THEN Ret(EmptyBook)
    ELSE IF fetch = None THEN Ret(EmptyBook)
    ELSE Ret([bids |-> SortByPrice(fetch.ret.bids, TRUE),
              asks |-> SortByPrice(fetch.ret.asks, FALSE)])

OwnBookMissingOrdersOnly(own_book) == own_book.orders = None

OwnBookMissing(own_book) == own_book.orders = None \/ own_book.balances = None

Entries(orders) == [i \in 1..Len(orders) |-> [price |-> orders[i].price, size |-> orders[i].size]]

(* round(x, MAX_DECIMALS): a price in tenths of a cent rounded to cents. The
   prices fed to the model avoid exact halves, where the binary representation
   of the float decides the direction. *)
RoundCents(mills) == (mills + 5) \div 10

GetTokenPricesSamePrice(price_a) ==
    [A |-> RoundCents(price_a), B |-> RoundCents(price_a)]

(* get_token_prices (lines 209-215) *)
GetTokenPrices(price_a) ==
    [A |-> RoundCents(price_a), B |-> One - RoundCents(price_a)]

(* get_market_state (lines 123-183): the exchange calls made, the market book
   used, and the MarketState or None. An exception of get_order_book of the
   order manager (line 130), like any other raised inside the try, is turned
   into None by the except of line 181. *)
GetMarketState(fetch, own_book, price, now) ==
    LET market_book == GetMarketOrders(fetch)
        calls1 == <<"get_order_book">>
        failed(calls) == [calls |-> calls, market_book |-> market_book,
                          market_state |-> None]
    IN  IF Raised(market_book) THEN failed(calls1)
        ELSE IF Raised(own_book) THEN failed(calls1)
        ELSE IF OwnBookMissing(own_book) THEN failed(calls1)
        ELSE IF own_book.orders = None THEN failed(calls1)
        ELSE LET orders == own_book.orders.some
                 own_bids == Entries(SelectSeq(orders, LAMBDA o : o.side = "buy"))
                 own_asks == Entries(SelectSeq(orders, LAMBDA o : o.side # "buy"))
                 bids == SortByPrice(market_book.ret.bids \o own_bids, TRUE)
                 asks == SortByPrice(market_book.ret.asks \o own_asks, FALSE)
                 calls2 == Append(calls1, "get_price")
             IN  IF Raised(price) THEN failed(calls2)
                 ELSE [calls |-> calls2,
                       market_book |-> market_book,
                       market_state |->
                           [timestamp |-> now,
                            away_team_price |-> GetTokenPrices(price.ret).A,
                            home_team_price |-> GetTokenPrices(price.ret).B,
                            away_team_bids |-> bids,
                            away_team_asks |-> asks,
                            balances |-> own_book.balances]]

(* cancel_orders (lines 217-222): the calls made on the order manager. *)
CancelOrders(orders_to_cancel) ==
    IF Len(orders_to_cancel) > 0
    THEN <<[op |-> "cancel_orders", orders |-> orders_to_cancel]>>
    ELSE <<>>

(* place_orders (lines 224-227) *)
PlaceOrders(orders_to_place) ==
    IF Len(orders_to_place) > 0
    THEN <<[op |-> "place_orders", orders |-> orders_to_place]>>
    ELSE <<>>

(* Lines 200-204 of synchronize: the two lengths are logged and the calls
   self.cancel_orders(orders_to_cancel), self.place_orders(orders_to_place) are
   commented out, so no call reaches the order manager. *)
Dispatch(orders_to_cancel, orders_to_place) == <<>>

SynchronizeCatchesExchangeOnly(e) == e = "exchange"

(* except Exception (line 206) *)
SynchronizeCatches(e) == TRUE

(* Line 198: orders_to_cancel, orders_to_place = self.strategy.get_orders(...),
   the order of the pair declared by BaseStrategy.get_orders
   (base_strategy.py lines 19-23). *)
SynchronizeUnpack(returned) ==
    [orders_to_cancel |-> returned[1], orders_to_place |-> returned[2]]

(* Inputs of a tick *)
RawBids == {<<>>, [i \in 1..MaxBook |-> [price |-> 40 - 10 * (MaxBook - i), size |-> 5]]}
RawAsks == {<<>>, [i \in 1..MaxBook |-> [price |-> 60 + 10 * (MaxBook - i), size |-> 5]]}
BookFetches ==
    {Raise("exchange"), None} \cup {Ret([bids |-> b, asks |-> a]) : b \in RawBids, a \in RawAsks}

MgrOrder(i, side, price) ==
    [id |-> i, token |-> "A", side |-> side, price |-> price, size |-> order_size]
OwnSnapshots ==
    {Raise("manager")} \cup
    [orders : {None, Some(<<>>), Some(<<MgrOrder(1, "BUY", 45), MgrOrder(2, "SELL", 55)>>)},
     balances : {None, Some([A |-> 0, B |-> 10])}]
(* get_price(Token.A) in tenths of a cent *)
PriceFetches == {Raise("exchange"), Ret(398), Ret(604)}
MgrTimestamps == {0, TimeUnit}
(* What the score feed would deliver during the tick *)
ScoreFeeds == {None, Some([away_score |-> MaxScore, home_score |-> 0, game_time |-> LiveTime])}

Intent(i) == Order(order_size, 50, "BUY", "A", "GTC") @@ [id |-> i]
StrategyOutcomes ==
    {Raise("strategy")} \cup
    {Ret(<<first, second>>) : first \in {<<>>, <<Intent(1)>>}, second \in {<<>>, <<Intent(2)>>}}

(* synchronize (lines 185-207). The strategy is handed the MarketState alone
   (line 198); the score feed is not read. *)
Synchronize ==
    /\ \E fetch \in BookFetches, own_book \in OwnSnapshots, price \in PriceFetches,
          now \in MgrTimestamps, outcome \in StrategyOutcomes, feed \in ScoreFeeds :
         \E got \in {GetMarketState(fetch, own_book, price, now)} :
            mgr_tick' =
                IF got.market_state = None
                THEN [book_fetch |-> fetch,
                      own_book |-> own_book,
                      score_feed |-> feed,
                      market_book |-> got.market_book,
                      market_state |-> None,
                      exchange_calls |-> got.calls,
                      strategy_invoked |-> FALSE,
                      strategy_input |-> None,
                      strategy_outcome |-> None,
                      orders_to_cancel |-> <<>>,
                      orders_to_place |-> <<>>,
                      manager_calls |-> <<>>,
                      cancel_calls |-> <<>>,
                      place_calls |-> <<>>,
                      raised |-> FALSE]
                ELSE IF Raised(outcome)
                THEN [book_fetch |-> fetch,
                      own_book |-> own_book,
                      score_feed |-> feed,
                      market_book |-> got.market_book,
                      market_state |-> got.market_state,
                      exchange_calls |-> got.calls,
                      strategy_invoked |-> TRUE,
                      strategy_input |-> got.market_state,
                      strategy_outcome |-> outcome,
                      orders_to_cancel |-> <<>>,
                      orders_to_place |-> <<>>,
                      manager_calls |-> <<>>,
                      cancel_calls |-> <<>>,
                      place_calls |-> <<>>,
                      raised |-> ~SynchronizeCatches(outcome.raise)]
                ELSE LET calls == Dispatch(outcome.ret[1], outcome.ret[2])
                     IN  [book_fetch |-> fetch,
                          own_book |-> own_book,
                          score_feed |-> feed,
                          market_book |-> got.market_book,
                          market_state |-> got.market_state,
                          exchange_calls |-> got.calls,
                          strategy_invoked |-> TRUE,
                          strategy_input |-> got.market_state,
                          strategy_outcome |-> outcome,
                          orders_to_cancel |-> outcome.ret[1],
                          orders_to_place |-> outcome.ret[2],
                          manager_calls |-> calls,
                          cancel_calls |-> SelectSeq(calls, LAMBDA c : c.op = "cancel_orders"),
                          place_calls |-> SelectSeq(calls, LAMBDA c : c.op = "place_orders"),
                          raised |-> FALSE]
    /\ UNCHANGED <<svars, gvars, bvars, avars, fvars, xvars>>

MgrNext == Synchronize

SpecMgr == Init /\ [][MgrNext]_vars

----------------------------------------------------------------------------
(* types.py: the queries of MarketState on their own, for every token of the
   Token enum and both sides, over books sorted the way get_market_state sorts
   them (strategy.py lines 148-151). *)

AllTokens == {"A", "B", "C"}
Sides == {"BUY", "SELL"}

RawEntries(prices) ==
    UNION {[1..n -> [price : prices, size : {5, 7}]] : n \in 0..MaxBook}

SortedBids == {SortByPrice(raw, TRUE) : raw \in RawEntries({30, 40})}
SortedAsks == {SortByPrice(raw, FALSE) : raw \in RawEntries({60, 70})}

BookInit ==
    /\ SInit /\ GInit /\ MInit /\ AIdle /\ FIdle /\ XIdle
    /\ book_ms \in [away_team_bids : SortedBids, away_team_asks : SortedAsks]
    /\ book_query = None

BookQuery ==
    /\ book_query = None
    /\ \E token \in AllTokens, side \in Sides :
         book_query' = [token |-> token,
                        side |-> side,
                        bids |-> GetBids(book_ms, token),
                        asks |-> GetAsks(book_ms, token),
                        best |-> GetBestLimitPrice(book_ms, token, side)]
    /\ UNCHANGED <<book_ms, svars, gvars, mvars, avars, fvars, xvars>>

BookNext == BookQuery

SpecBook == BookInit /\ [][BookNext]_vars

----------------------------------------------------------------------------
(* The keeper around the manager: the order manager's poller refreshes the
   OwnOrderBook snapshot, the manager's cancel_orders / place_orders hand a
   batch to the order manager, and AppFrontRun.shutdown ends the run. *)

AppBalances == {0, order_size, 2 * order_size}

AppSnapshots ==
    [balances : [A : AppBalances, B : AppBalances],
     orders_being_placed : BOOLEAN,
     orders_being_cancelled : BOOLEAN]

Batches == {<<>>, <<Intent(1)>>}

AppInit ==
    /\ SInit /\ GInit /\ MInit /\ BIdle /\ FIdle /\ XIdle
    /\ app \in [running : {TRUE}, snapshot : AppSnapshots, op : {"start"}, calls : {<<>>}]

(* The background poller publishes a new snapshot. *)
PollerRefresh ==
    /\ app.running
    /\ \E snapshot \in AppSnapshots :
         app' = [app EXCEPT !.snapshot = snapshot, !.op = "refresh", !.calls = <<>>]
    /\ UNCHANGED <<svars, gvars, mvars, bvars, fvars, xvars>>

CancelOrdersCall ==
    /\ app.running
    /\ \E orders \in Batches :
         app' = [app EXCEPT !.op = "cancel_orders", !.calls = CancelOrders(orders)]
    /\ UNCHANGED <<svars, gvars, mvars, bvars, fvars, xvars>>

PlaceOrdersCall ==
    /\ app.running
    /\ \E orders \in Batches :
         app' = [app EXCEPT !.op = "place_orders", !.calls = PlaceOrders(orders)]
    /\ UNCHANGED <<svars, gvars, mvars, bvars, fvars, xvars>>

(* AppFrontRun.shutdown (app_front_run.py lines 188-194) *)
Shutdown ==
    /\ app.running
    /\ app' = [app EXCEPT !.running = FALSE, !.op = "shutdown",
                           !.calls = <<[op |-> "cancel_all_orders"]>>]
    /\ UNCHANGED <<svars, gvars, mvars, bvars, fvars, xvars>>

AppNext == PollerRefresh \/ CancelOrdersCall \/ PlaceOrdersCall \/ Shutdown

SpecApp == AppInit /\ [][AppNext]_vars

----------------------------------------------------------------------------
(* The strategy with the content of its pickle file followed record by record,
   over a live game with a fully priced book and no open own orders. *)

AuditStates(ts) ==
    [market_state :
        [timestamp : {ts},
         away_team_bids : {BidBook},
         away_team_asks : {AskBook},
         own_orders : [orders : {<<>>}],
         orders_to_place : {<<>>},
         orders_to_cancel : {<<>>}],
     score_board : ScoreBoards(TickScores, {LiveTime})]

AuditInit ==
    /\ SInit /\ GInit /\ MInit /\ BIdle /\ AIdle /\ XIdle
    /\ score_feed = None
    /\ audit_file = <<EmptyListRecord>>

AuditTick ==
    /\ \E ts \in NextTimestamps :
         \E new_state \in AuditStates(ts) : GetOrders(new_state)
    /\ audit_file' = SaveStateToFile(audit_file, state')
    /\ UNCHANGED <<gvars, mvars, bvars, avars, score_feed, xvars>>

AuditNext == AuditTick

SpecAudit == AuditInit /\ [][AuditNext]_vars

----------------------------------------------------------------------------
(* ScoreFeed: one get_scoreboard call after another on a constructed feed.
   score_feed.driver is the condition of self.driver, score_feed.results the
   outcomes the caller has seen, oldest first. *)

MaxFeedCalls == 2

max_attempts == 3

NoDriver == "none"

Num(n) == [int |-> n]

Blank == [blank |-> TRUE]

(* int(text.strip()) *)
ParseInt(text) ==
    IF "int" \in DOMAIN text THEN Ret(text.int) ELSE Raise("ValueError")

(* attempts[k]: attempt k starts the browser and loads the page *)
InitializeDriver(attempts) ==
    IF \E k \in 1..max_attempts : attempts[k] THEN Ret("ready")
    ELSE Raise("Exception")

(* the try block of get_scoreboard on a driver that is set *)
ReadPage(page) ==
    IF page.wait # "ok" THEN Raise(page.wait)
    ELSE IF Len(page.scores) >= 2
         THEN LET away_score == ParseInt(page.scores[1])
                  home_score == ParseInt(page.scores[2])
              IN  IF Raised(away_score) THEN away_score
                  ELSE IF Raised(home_score) THEN home_score
                  ELSE Ret([away_score |-> away_score.ret,
                            home_score |-> home_score.ret,
                            game_time |-> page.time])
         ELSE Ret(None)

(* <<outcome for the caller, self.driver afterwards>> *)
GetScoreboard(driver, page, attempts) ==
    LET first == IF driver = NoDriver THEN InitializeDriver(attempts)
                 ELSE Ret(driver)
        body == IF Raised(first) THEN first ELSE ReadPage(page)
    IN  IF Raised(body) /\ body.raise \in {"TimeoutException", "WebDriverException"}
        THEN LET again == InitializeDriver(attempts)
             IN  IF Raised(again) THEN <<again, "broken">>
                 ELSE <<Ret(None), again.ret>>
        ELSE <<body, IF Raised(first) THEN "broken"
                     ELSE IF driver = NoDriver THEN first.ret ELSE driver>>

ScoreTexts == {Num(0), Num(MaxScore), Blank}

ScoreElements ==
    {<<>>} \cup {<<x>> : x \in ScoreTexts}
           \cup {<<x, y>> : x \in ScoreTexts, y \in ScoreTexts}
           \cup {<<x, x, Blank>> : x \in ScoreTexts}

Pages(driver) ==
    IF driver = "broken"
    THEN {[wait |-> "WebDriverException", scores |-> <<>>, time |-> LiveTime]}
    ELSE [wait : {"ok"}, scores : ScoreElements, time : GameTimes]
         \cup [wait : {"TimeoutException", "WebDriverException"},
               scores : {<<>>}, time : {LiveTime}]

Attempts == [1..max_attempts -> BOOLEAN]

FeedInit ==
    /\ SInit /\ GInit /\ MInit /\ BIdle /\ AIdle /\ XIdle
    /\ audit_file = <<>>
    /\ score_feed = [driver |-> "ready", results |-> <<>>]

FeedCall ==
    /\ Len(score_feed.results) < MaxFeedCalls
    /\ \E page \in Pages(score_feed.driver) : \E attempts \in Attempts :
         \E out \in {GetScoreboard(score_feed.driver, page, attempts)} :
            score_feed' = [driver |-> out[2],
                           results |-> Append(score_feed.results, out[1])]
    /\ UNCHANGED <<svars, gvars, mvars, bvars, avars, audit_file, xvars>>

FeedNext == FeedCall

SpecFeed == FeedInit /\ [][FeedNext]_vars

----------------------------------------------------------------------------
(* The reconciliation loop around the strategy: tick after tick synchronize
   assembles the market state and, unless the tick aborts, calls get_orders.
   The strategy is handed the SportsStrategyState of the tick (the state
   get_orders is written for); mgr_tick keeps whether the tick aborted and
   whether the tick before it did. *)

StrategyInvokedAlways(market_state) == TRUE

(* Lines 190-198: if not market_state: return; otherwise get_orders is called. *)
StrategyInvoked(market_state) == market_state # None

LoopFetches ==
    {Raise("exchange"),
     Ret([bids |-> [i \in 1..MaxBook |-> [price |-> 40 - 10 * (MaxBook - i), size |-> 5]],
          asks |-> [i \in 1..MaxBook |-> [price |-> 60 + 10 * (MaxBook - i), size |-> 5]]])}

LoopSnapshots ==
    {Raise("manager"),
     [orders |-> None, balances |-> Some([A |-> 0, B |-> 10])],
     [orders |-> Some(<<>>), balances |-> None],
     [orders |-> Some(<<>>), balances |-> Some([A |-> 0, B |-> 10])]}

LoopPrices == {Raise("exchange"), Ret(398)}

LoopInit == Init

LoopTick ==
    /\ \E ts \in NextTimestamps :
       \E fetch \in LoopFetches, own_book \in LoopSnapshots, price \in LoopPrices :
       \E got \in {GetMarketState(fetch, own_book, price, ts)} :
          /\ mgr_tick' = [aborted |-> got.market_state = None,
                          strategy_invoked |-> StrategyInvoked(got.market_state),
                          after_abort |-> mgr_tick # None /\ mgr_tick.aborted]
          /\ IF StrategyInvoked(got.market_state)
             THEN \E new_state \in AuditStates(ts) : GetOrders(new_state)
             ELSE UNCHANGED svars
    /\ UNCHANGED <<gvars, bvars, avars, fvars, xvars>>

LoopNext == LoopTick

SpecLoop == LoopInit /\ [][LoopNext]_vars

----------------------------------------------------------------------------
(* The strategy over an unending run of ticks. Only differences of timestamps
   are read (lines 170-171, 216), so after each tick the clock is moved back to
   0: the remembered state carries timestamp 0, the pending reset the time left
   until its trigger, and a tick is given by the time dt elapsed since the tick
   before. Reset sizes are read by no branch of get_orders; sizes from
   MaxLiveMerges * order_size upwards are kept as one value, and file_len
   stops counting at MaxTimeIdx + 1. *)

MaxLiveMerges == 3

Smaller(a, b) == IF a < b THEN a ELSE b

LiveStates(dt) ==
    [market_state :
        [timestamp : {dt},
         away_team_bids : {BidBook},
         away_team_asks : {AskBook},
         own_orders : [orders : {<<>>}],
         orders_to_place : {<<>>},
         orders_to_cancel : {<<>>}],
     score_board : ScoreBoards(TickScores, GameTimes)]

Elapsed == {TimeUnit, 2 * TimeUnit}

Rebase(st) == [st EXCEPT !.market_state.timestamp = 0]

Shift(r, dt) ==
    IF r = None THEN None
    ELSE OrderReset(r.trigger_timestamp - dt, r.token,
                    Smaller(r.size, MaxLiveMerges * order_size))

LiveInit == Init

LiveTick ==
    /\ \E dt \in Elapsed : \E new_state \in LiveStates(dt) :
       \E fav \in {GetFavoredToken(state, new_state).ret} :
       \E out \in {HandleExpiry(HandleSignal(reset, new_state, fav), new_state)} :
          /\ favored' = fav
          /\ reset' = Shift(out.reset, dt)
          /\ state' = Rebase(UpdateState(state, new_state, out.place, out.cancel))
          /\ arg' = Rebase(new_state)
          /\ file_len' = Smaller(file_len + 1, MaxTimeIdx + 1)
          /\ ret_place' = out.place
          /\ ret_cancel' = out.cancel
    /\ UNCHANGED <<gvars, mvars, bvars, avars, fvars, xvars>>

LiveNext == LiveTick

(* Ticks keep being processed and time passes between two ticks: the caller's
   loop hands get_orders one tick after another. *)
SpecLive == LiveInit /\ [][LiveNext]_vars /\ WF_vars(LiveTick)

----------------------------------------------------------------------------
(* ScoreFeed.initialize_driver statement by statement. driver_init.driver is
   self.driver, attempt the loop counter, tried the outcomes of the attempts
   made so far, pc the statement the call stands at. An attempt fails by
   raising WebDriverException from driver.quit(), from webdriver.Chrome() or
   from driver.get(). *)

InitCall(driver, attempt, tried, pc) ==
    [driver |-> driver, attempt |-> attempt, tried |-> tried, pc |-> pc]

(* The constructor calls with self.driver = None (line 25), get_scoreboard with
   whatever driver an earlier call left (lines 60, 87). *)
RetryInit ==
    /\ SInit /\ GInit /\ MInit /\ BIdle /\ AIdle /\ FIdle
    /\ race = None
    /\ driver_init \in {InitCall(d, 0, <<>>, "while") :
                          d \in {NoDriver, "ready", "closed", "unloaded"}}

(* Line 30: while attempt < max_attempts; line 32: if self.driver *)
WhileCheck ==
    /\ driver_init.pc = "while"
    /\ driver_init' =
         [driver_init EXCEPT !.pc =
             IF driver_init.attempt < max_attempts
             THEN (IF driver_init.driver # NoDriver THEN "quit" ELSE "chrome")
             ELSE "returned"]
    /\ UNCHANGED <<svars, gvars, mvars, bvars, avars, fvars, race>>

(* Line 33: self.driver.quit() *)
QuitOld ==
    /\ driver_init.pc = "quit"
    /\ \E ok \in BOOLEAN :
         driver_init' =
           IF ok THEN [driver_init EXCEPT !.driver = "closed", !.pc = "chrome"]
           ELSE [driver_init EXCEPT !.tried = Append(@, "quit_failed"),
                                    !.pc = "except"]
    /\ UNCHANGED <<svars, gvars, mvars, bvars, avars, fvars, race>>

(* Line 35: self.driver = webdriver.Chrome() *)
StartChrome ==
    /\ driver_init.pc = "chrome"
    /\ \E ok \in BOOLEAN :
         driver_init' =
           IF ok THEN [driver_init EXCEPT !.driver = "unloaded", !.pc = "get"]
           ELSE [driver_init EXCEPT !.tried = Append(@, "chrome_failed"),
                                    !.pc = "except"]
    /\ UNCHANGED <<svars, gvars, mvars, bvars, avars, fvars, race>>

(* Lines 36-46: self.driver.get(...), the WebDriverWait, return *)
LoadPage ==
    /\ driver_init.pc = "get"
    /\ \E ok \in BOOLEAN :
         driver_init' =
           IF ok THEN [driver_init EXCEPT !.driver = "ready",
                                          !.tried = Append(@, "ok"),
                                          !.pc = "returned"]
           ELSE [driver_init EXCEPT !.tried = Append(@, "get_failed"),
                                    !.pc = "except"]
    /\ UNCHANGED <<svars, gvars, mvars, bvars, avars, fvars, race>>

RetryExhaustedLater(attempt) == attempt > max_attempts

(* Line 49: if attempt == max_attempts: raise *)
RetryExhausted(attempt) == attempt = max_attempts

(* Lines 47-53: attempt += 1, raise after the last attempt, else sleep(2) and
   back to the loop condition. *)
HandleFailure ==
    /\ driver_init.pc = "except"
    /\ driver_init' =
         [driver_init EXCEPT !.attempt = @ + 1,
                             !.pc = IF RetryExhausted(driver_init.attempt + 1)
                                    THEN "raised" ELSE "while"]
    /\ UNCHANGED <<svars, gvars, mvars, bvars, avars, fvars, race>>

RetryNext == WhileCheck \/ QuitOld \/ StartChrome \/ LoadPage \/ HandleFailure

(* Every call made by the loop body returns or raises, and sleep(2) returns. *)
SpecRetry == RetryInit /\ [][RetryNext]_vars /\ WF_vars(RetryNext)

----------------------------------------------------------------------------
(* Two callers inside get_orders of one FrontRunStrategy instance. The method
   takes no lock; a call is split where it reads and where it writes the
   fields the two callers share: line 147 reads self.state, lines 176-196 read
   self.reset and compute the reset to store, the assignment of line 189, 193
   or 199 stores it, lines 214-230 check the expiry, line 233 stores
   self.state. race.fired adds up the sizes of the BUYs built for the pending
   reset's token since a reset was last installed; race.overlapped tells
   whether a call ever began while another one was in progress. *)

MaxRaceCalls == 4

Callers == {1, 2}

RaceBoards ==
    {[away_score |-> 0, home_score |-> 0, game_time |-> LiveTime],
     [away_score |-> MaxScore, home_score |-> 0, game_time |-> LiveTime],
     [away_score |-> 0, home_score |-> MaxScore, game_time |-> LiveTime],
     [away_score |-> MaxScore, home_score |-> 0, game_time |-> <<"Final">>]}

RaceStates(ts) ==
    [market_state :
        [timestamp : {ts},
         away_team_bids : {BidBook},
         away_team_asks : {AskBook},
         own_orders : [orders : {<<>>}],
         orders_to_place : {<<>>},
         orders_to_cancel : {<<>>}],
     score_board : RaceBoards]

IdleCaller == [pc |-> "idle"]

RaceInit ==
    /\ SInit /\ GInit /\ MInit /\ BIdle /\ AIdle /\ FIdle
    /\ driver_init = None
    /\ race = [state |-> None, reset |-> None, fired |-> 0,
               overlapped |-> FALSE, calls |-> 0,
               caller |-> [t \in Callers |-> IdleCaller]]

(* Lines 142-148: the call starts on the tick's state and computes the favored
   token against the remembered state. *)
Begin(t) ==
    /\ race.caller[t].pc = "idle"
    /\ race.calls < MaxRaceCalls
    /\ \E new_state \in RaceStates(race.calls * TimeUnit) :
         race' = [race EXCEPT
            !.calls = @ + 1,
            !.overlapped = @ \/ \E u \in Callers : race.caller[u].pc # "idle",
            !.caller[t] =
                [pc |-> "read", new_state |-> new_state,
                 favored |-> GetFavoredToken(race.state, new_state).ret,
                 place |-> <<>>, cancel |-> <<>>,
                 to_store |-> None, merged |-> FALSE]]
    /\ UNCHANGED <<svars, gvars, mvars, bvars, avars, fvars, driver_init>>

(* Lines 152-197 up to the assignment: the BUY, the early consumption and the
   reset to store, computed from self.reset as it is read now. *)
ReadReset(t) ==
    /\ race.caller[t].pc = "read"
    /\ LET me == race.caller[t]
           sig == HandleSignal(race.reset, me.new_state, me.favored)
       IN  race' = [race EXCEPT !.caller[t] =
              IF sig.place = <<>>
              THEN [me EXCEPT !.pc = "expiry"]
              ELSE [me EXCEPT !.pc = "store",
                              !.place = sig.place,
                              !.cancel = sig.cancel,
                              !.to_store = sig.reset,
                              !.merged = race.reset # None
                                         /\ race.reset.token = me.favored]]
    /\ UNCHANGED <<svars, gvars, mvars, bvars, avars, fvars, driver_init>>

(* The assignment to self.reset of line 189, 193 or 199. *)
StoreReset(t) ==
    /\ race.caller[t].pc = "store"
    /\ LET me == race.caller[t]
       IN  race' = [race EXCEPT
              !.reset = me.to_store,
              !.fired = IF me.merged THEN @ + me.place[1].size
                        ELSE me.place[1].size,
              !.caller[t] = [me EXCEPT !.pc = "expiry"]]
    /\ UNCHANGED <<svars, gvars, mvars, bvars, avars, fvars, driver_init>>

(* Lines 214-230 *)
CheckExpiry(t) ==
    /\ race.caller[t].pc = "expiry"
    /\ LET me == race.caller[t]
           out == HandleExpiry([place |-> me.place, cancel |-> me.cancel,
                                reset |-> race.reset], me.new_state)
       IN  race' = [race EXCEPT
              !.reset = out.reset,
              !.fired = IF out.reset = None THEN 0 ELSE @,
              !.caller[t] = [me EXCEPT !.pc = "finish",
                                       !.place = out.place,
                                       !.cancel = out.cancel]]
    /\ UNCHANGED <<svars, gvars, mvars, bvars, avars, fvars, driver_init>>

(* Lines 233-238 *)
Finish(t) ==
    /\ race.caller[t].pc = "finish"
    /\ LET me == race.caller[t]
       IN  race' = [race EXCEPT
              !.state = UpdateState(race.state, me.new_state, me.place, me.cancel),
              !.caller[t] = IdleCaller]
    /\ UNCHANGED <<svars, gvars, mvars, bvars, avars, fvars, driver_init>>

RaceNext ==
    \E t \in Callers :
        Begin(t) \/ ReadReset(t) \/ StoreReset(t) \/ CheckExpiry(t) \/ Finish(t)

SpecRace == RaceInit /\ [][RaceNext]_vars

----------------------------------------------------------------------------
(* Vocabulary of the properties *)

TickTime == state.market_state.timestamp

HasAsk(st, token) == GetMinAsk(st.market_state, token).ret # None

IsBuy(o, token) == o.side = "BUY" /\ o.token = token

IsFlatten(o, token) ==
    o.side = "SELL" /\ o.token = token /\ o.order_type = "FOK" /\ o.price = FloorPrice

Min(a, b) == IF a < b THEN a ELSE b

Other(token) == IF token = "A" THEN "B" ELSE "A"

----------------------------------------------------------------------------
(* C1 (as stated): whenever a signal for token X fires while a reset is pending
   for X, afterwards one reset is pending, its size is the old size plus the
   signal's size and its trigger is the EARLIER of the old trigger and
   tick timestamp + reset_delay. *)
C1_MergeEarlierTrigger ==
    [][(reset # None /\ favored' # NoToken /\ favored' = reset.token)
        => /\ reset' # None
           /\ reset'.token = reset.token
           /\ reset'.size = reset.size + order_size
           /\ reset'.trigger_timestamp =
                Min(reset.trigger_timestamp, TickTime' + reset_delay)]_vars

(* C1 (amended): whenever a signal for token X fires and its BUY is built (X has
   an ask) while a reset is pending for X, afterwards one reset is pending for X,
   its size is the old size plus the BUY's size, and its trigger is the new
   candidate's trigger, tick timestamp + reset_delay. *)
C1_MergeAccumulation ==
    [][(reset # None /\ favored' # NoToken /\ favored' = reset.token
        /\ HasAsk(state', favored'))
        => /\ reset' # None
           /\ reset'.token = reset.token
           /\ Len(ret_place') = 1 /\ IsBuy(ret_place'[1], favored')
           /\ reset'.size = reset.size + ret_place'[1].size
           /\ reset'.trigger_timestamp = TickTime' + reset_delay]_vars

(* A merge took place at a tick later than the one that installed the reset:
   the pending size is twice the order size and the old trigger was earlier. *)
C1_Witness ==
    /\ reset # None /\ favored = reset.token
    /\ reset.size = 2 * order_size
    /\ TickTime >= 2 * TimeUnit
    /\ Len(ret_place) = 1

(* C2 (as stated): in every tick where a signal favoring X fires while a reset
   is pending for the other token Y, the returned intents hold a SELL FOK on Y,
   a cancel intent for every open own order on Y and the BUY for X, and the
   pending reset afterwards is the new candidate for X. *)
C2_EarlyAlways ==
    [][(reset # None /\ favored' # NoToken /\ favored' # reset.token)
        => /\ \E i \in 1..Len(ret_place') : IsFlatten(ret_place'[i], reset.token)
           /\ \E i \in 1..Len(ret_place') : IsBuy(ret_place'[i], favored')
           /\ \A j \in 1..Len(state'.market_state.own_orders.orders) :
                LET o == state'.market_state.own_orders.orders[j]
                IN  o.token = reset.token
                      => \E i \in 1..Len(ret_cancel') : ret_cancel'[i] = o
           /\ reset' = OrderReset(TickTime' + reset_delay, favored', order_size)]_vars

(* C2 (amended): the same, in every tick where the signal's BUY is built, that
   is where X has an ask in the tick's book. *)
C2_EarlyConsumption ==
    [][(reset # None /\ favored' # NoToken /\ favored' # reset.token
        /\ HasAsk(state', favored'))
        => /\ \E i \in 1..Len(ret_place') : IsFlatten(ret_place'[i], reset.token)
           /\ \E i \in 1..Len(ret_place') : IsBuy(ret_place'[i], favored')
           /\ \A j \in 1..Len(state'.market_state.own_orders.orders) :
                LET o == state'.market_state.own_orders.orders[j]
                IN  o.token = reset.token
                      => \E i \in 1..Len(ret_cancel') : ret_cancel'[i] = o
           /\ reset' = OrderReset(TickTime' + reset_delay, favored', order_size)]_vars

(* An early consumption with open own orders on the flattened token: the tick
   returned the BUY for the favored token, the flatten of the other token and
   more than one cancel intent. *)
C2_Witness ==
    /\ favored # NoToken
    /\ Len(ret_place) = 2
    /\ IsBuy(ret_place[1], favored)
    /\ IsFlatten(ret_place[2], Other(favored))
    /\ Len(ret_cancel) >= 2
    /\ reset = OrderReset(TickTime + reset_delay, favored, order_size)

(* C3: with a reset pending and no signal in the tick, a tick whose timestamp
   has reached the trigger returns exactly one flatten SELL for the reset's
   token and clears the reset, an earlier tick returns nothing and keeps it;
   a reset left pending by a tick is not yet due at that tick, and with no
   reset pending and no signal no flatten is returned. *)
C3_NaturalExpiry ==
    [][/\ (reset # None /\ favored' = NoToken /\ TickTime' >= reset.trigger_timestamp)
            => /\ reset' = None
               /\ Len(ret_place') = 1
               /\ IsFlatten(ret_place'[1], reset.token)
       /\ (reset # None /\ favored' = NoToken /\ TickTime' < reset.trigger_timestamp)
            => /\ reset' = reset
               /\ ret_place' = <<>>
       /\ (reset = None /\ favored' = NoToken)
            => /\ reset' = None
               /\ ret_place' = <<>>
       /\ (reset' # None) => reset'.trigger_timestamp > TickTime']_vars

(* A reset expired exactly at its trigger time: no signal, one flatten. *)
C3_Witness ==
    /\ state # None /\ favored = NoToken /\ reset = None
    /\ Len(ret_place) = 1
    /\ ret_place[1].side = "SELL"
    /\ TickTime = TimeUnit + reset_delay

(* C4: every flatten order returned by a tick is a SELL FOK at the floor price
   whose size is the full size of the pending reset it consumes. *)
C4_FlattenFullSize ==
    [][\A i \in 1..Len(ret_place') :
          ret_place'[i].side = "SELL"
            => /\ reset # None
               /\ IsFlatten(ret_place'[i], reset.token)
               /\ ret_place'[i].size = reset.size]_vars

----------------------------------------------------------------------------
(* Signal rule restated from the scores *)

OldDiff == Abs(sig_old.score_board.away_score - sig_old.score_board.home_score)
NewDiff == Abs(sig_new.score_board.away_score - sig_new.score_board.home_score)
DiffInDiff == Abs(NewDiff - OldDiff)
AwayDiff == sig_new.score_board.away_score - sig_old.score_board.away_score
HomeDiff == sig_new.score_board.home_score - sig_old.score_board.home_score
IsFinal == Contains(sig_new.score_board.game_time, "Final")
Compared == sig_old # None /\ sig_new # None
Gained == IF AwayDiff > 0 THEN "A" ELSE IF HomeDiff > 0 THEN "B" ELSE NoToken

(* C5 (as stated): outside game end a token is returned iff diff_in_diff >= 2
   and diff_pct is strictly above 0.1; the token is A if away_diff > 0, else B
   if home_diff > 0, else none. *)
C5_SignalRuleStrict ==
    (Compared /\ ~IsFinal) =>
        sig_result =
            Ret(IF DiffInDiff >= 2 /\ (OldDiff = 0 \/ 10 * DiffInDiff > OldDiff)
                THEN Gained ELSE NoToken)

(* C5 (amended): outside game end the signal fires iff diff_in_diff >= 2 and
   diff_pct is at least 0.1 (diff_pct = diff_in_diff / old_diff, 1.0 when
   old_diff = 0); the token is A if away_diff > 0, else B if home_diff > 0,
   else none. *)
C5_SignalRule ==
    (Compared /\ ~IsFinal) =>
        sig_result =
            Ret(IF DiffInDiff >= 2 /\ (OldDiff = 0 \/ 10 * DiffInDiff >= OldDiff)
                THEN Gained ELSE NoToken)

(* The relative change is exactly 0.1 and the signal fired. *)
C5_Witness ==
    /\ Compared /\ ~IsFinal
    /\ DiffInDiff >= 2 /\ 10 * DiffInDiff = OldDiff
    /\ sig_result = Ret("A")

(* C6: the signal computation never raises; with the previous scores tied the
   relative change counts as 1.0, so the signal fires iff diff_in_diff >= 2,
   and (0,0) -> (3,0) favors A. *)
C6_NeverRaises ==
    /\ ~Raised(sig_result)
    /\ sig_result.ret \in Tokens \cup {NoToken}
    /\ (Compared /\ ~IsFinal /\ OldDiff = 0)
         => sig_result = Ret(IF DiffInDiff >= 2 THEN Gained ELSE NoToken)
    /\ (Compared /\ ~IsFinal
        /\ sig_old.score_board.away_score = 0 /\ sig_old.score_board.home_score = 0
        /\ sig_new.score_board.away_score = 3 /\ sig_new.score_board.home_score = 0)
         => sig_result = Ret("A")

(* (0,0) -> (3,0) was evaluated and favored A. *)
C6_Witness ==
    /\ Compared /\ ~IsFinal
    /\ sig_old.score_board.away_score = 0 /\ sig_old.score_board.home_score = 0
    /\ sig_new.score_board.away_score = 3 /\ sig_new.score_board.home_score = 0
    /\ sig_result = Ret("A")

(* C7: with a previous state and a new game_time containing "Final", the favored
   token is A if away_score > home_score and B otherwise, whatever the previous
   scores and the score delta. *)
C7_GameEnd ==
    (Compared /\ IsFinal) =>
        sig_result =
            Ret(IF sig_new.score_board.away_score > sig_new.score_board.home_score
                THEN "A" ELSE "B")

(* A final tie favored B although only the away team scored since the
   previous state. *)
C7_Witness ==
    /\ Compared /\ IsFinal
    /\ sig_new.score_board.away_score = sig_new.score_board.home_score
    /\ AwayDiff > 0 /\ HomeDiff = 0
    /\ sig_result = Ret("B")

(* C8: the first get_orders call of a fresh strategy produces no signal, returns
   empty place and cancel lists and leaves no reset pending, also when the
   game_time contains "Final". *)
C8_FirstTick ==
    file_len = 1 =>
        /\ favored = NoToken
        /\ ret_place = <<>>
        /\ ret_cancel = <<>>
        /\ reset = None

(* The first call was made with a final score board, a priced book and open
   own orders. *)
C8_Witness ==
    /\ file_len = 1
    /\ Contains(state.score_board.game_time, "Final")
    /\ state.score_board.away_score > state.score_board.home_score
    /\ HasAsk(state, "A")
    /\ state.market_state.own_orders.orders # <<>>
    /\ ret_place = <<>>

----------------------------------------------------------------------------
AbortedOnOwnBook ==
    /\ mgr_tick # None
    /\ ~Raised(mgr_tick.own_book)
    /\ (mgr_tick.own_book.orders = None \/ mgr_tick.own_book.balances = None)

(* C10 (as stated): in a tick where the own orders or the balances are null the
   strategy is not invoked, no place and no cancel intent is dispatched, and no
   exchange call is made. *)
C10_AbortNoExchangeCall ==
    AbortedOnOwnBook =>
        /\ ~mgr_tick.strategy_invoked
        /\ mgr_tick.place_calls = <<>> /\ mgr_tick.cancel_calls = <<>>
        /\ mgr_tick.exchange_calls = <<>>

(* C10 (amended): in a tick where the own orders or the balances are null the
   strategy is not invoked, no place and no cancel intent is dispatched, and the
   only exchange call of the tick is the order-book query made before the
   snapshot is examined: no price query, no order placement, no cancellation. *)
C10_AbortOnMissingData ==
    AbortedOnOwnBook =>
        /\ ~mgr_tick.strategy_invoked
        /\ mgr_tick.market_state = None
        /\ mgr_tick.place_calls = <<>> /\ mgr_tick.cancel_calls = <<>>
        /\ mgr_tick.exchange_calls = <<"get_order_book">>

(* A tick aborted with the orders present and only the balances null. *)
C10_Witness ==
    /\ mgr_tick # None
    /\ ~Raised(mgr_tick.own_book)
    /\ mgr_tick.own_book.orders # None
    /\ mgr_tick.own_book.balances = None
    /\ ~mgr_tick.strategy_invoked

----------------------------------------------------------------------------
Ticked == mgr_tick # None

Returned == Ticked /\ mgr_tick.strategy_invoked /\ ~Raised(mgr_tick.strategy_outcome)

(* C11: in a tick whose strategy call returned, the order manager receives the
   non-empty cancel batch first and the non-empty place batch second, and no
   call for an empty list. *)
C11_DispatchOrder ==
    Returned =>
        mgr_tick.manager_calls =
            CancelOrders(mgr_tick.orders_to_cancel) \o PlaceOrders(mgr_tick.orders_to_place)

(* C12: no tick lets an error escape synchronize, whether the order-book query,
   the own-order snapshot, the price query or the strategy raised. *)
C12_TickSurvival == Ticked => ~mgr_tick.raised

(* The strategy raised in a tick and synchronize returned normally. *)
C12_Witness ==
    /\ Ticked /\ mgr_tick.strategy_invoked
    /\ Raised(mgr_tick.strategy_outcome)
    /\ ~mgr_tick.raised

BookFetchFailed == Ticked /\ (Raised(mgr_tick.book_fetch) \/ mgr_tick.book_fetch = None)

SnapshotPresent == ~Raised(mgr_tick.own_book) /\ ~OwnBookMissing(mgr_tick.own_book)

(* C13: when the exchange's order-book query raises or returns nothing,
   get_market_orders returns the empty book, and the tick goes on: with the
   own-order snapshot present the price query is made, and when it succeeds the
   MarketState is assembled from the empty book and the own orders alone. *)
C13_BookFetchFailure ==
    BookFetchFailed =>
        /\ mgr_tick.market_book = Ret(EmptyBook)
        /\ ~mgr_tick.raised
        /\ SnapshotPresent =>
             mgr_tick.exchange_calls = <<"get_order_book", "get_price">>
        /\ mgr_tick.market_state # None =>
             Len(mgr_tick.market_state.away_team_bids)
               + Len(mgr_tick.market_state.away_team_asks)
                 = Len(mgr_tick.own_book.orders.some)

(* The order-book query raised and the tick went on to invoke the strategy. *)
C13_Witness ==
    /\ Ticked /\ Raised(mgr_tick.book_fetch)
    /\ mgr_tick.strategy_invoked
    /\ mgr_tick.exchange_calls = <<"get_order_book", "get_price">>

(* C14: in a tick where the score feed returns no ScoreBoard the strategy is not
   invoked and nothing is dispatched, and the strategy is only ever invoked with
   a combined state holding a MarketState and a ScoreBoard. *)
C14_ScoreboardAbort ==
    Ticked =>
        /\ mgr_tick.score_feed = None =>
             /\ ~mgr_tick.strategy_invoked
             /\ mgr_tick.manager_calls = <<>>
        /\ mgr_tick.strategy_invoked =>
             /\ "market_state" \in DOMAIN mgr_tick.strategy_input
             /\ "score_board" \in DOMAIN mgr_tick.strategy_input

(* C16: every MarketState assembled by a tick has price(B) = 1 - price(A), the
   price of A being the queried price rounded to cents. *)
C16_PriceComplement ==
    (Ticked /\ mgr_tick.market_state # None) =>
        /\ mgr_tick.market_state.home_team_price = One - mgr_tick.market_state.away_team_price
        /\ mgr_tick.market_state.away_team_price \in 0..One

(* A MarketState was assembled from a queried price of 0.604: 0.60 and 0.40. *)
C16_Witness ==
    /\ Ticked /\ mgr_tick.market_state # None
    /\ mgr_tick.market_state.away_team_price = 60
    /\ mgr_tick.market_state.home_team_price = 40

----------------------------------------------------------------------------
Queried == book_query # None

(* C15: get_bids(B) has the length of the token-A asks and entry i has price
   1 - ask price and the ask's size; get_asks(B) is the same image of the
   token-A bids; get_bids(A) and get_asks(A) are the token-A book itself. *)
C15_ComplementaryBook ==
    /\ (Queried /\ book_query.token = "B") =>
         /\ ~Raised(book_query.bids) /\ ~Raised(book_query.asks)
         /\ Len(book_query.bids.ret) = Len(book_ms.away_team_asks)
         /\ \A i \in 1..Len(book_ms.away_team_asks) :
              /\ book_query.bids.ret[i].price = One - book_ms.away_team_asks[i].price
              /\ book_query.bids.ret[i].size = book_ms.away_team_asks[i].size
         /\ Len(book_query.asks.ret) = Len(book_ms.away_team_bids)
         /\ \A i \in 1..Len(book_ms.away_team_bids) :
              /\ book_query.asks.ret[i].price = One - book_ms.away_team_bids[i].price
              /\ book_query.asks.ret[i].size = book_ms.away_team_bids[i].size
    /\ (Queried /\ book_query.token = "A") =>
         /\ book_query.bids = Ret(book_ms.away_team_bids)
         /\ book_query.asks = Ret(book_ms.away_team_asks)

(* Token B was queried on a book with asks of two sizes: its bids are the
   complements, in the same order, with the sizes kept. *)
C15_Witness ==
    /\ Queried /\ book_query.token = "B"
    /\ Len(book_ms.away_team_asks) >= 2
    /\ book_ms.away_team_asks[1].size # book_ms.away_team_asks[2].size
    /\ book_ms.away_team_asks[1].price # book_ms.away_team_asks[2].price
    /\ book_query.bids.ret[1].price = One - book_ms.away_team_asks[1].price
    /\ book_query.bids.ret[2].size = book_ms.away_team_asks[2].size

PricesOf(book) == {book[i].price : i \in 1..Len(book)}

(* C17: for token A or B, get_best_limit_price with BUY is the minimum price of
   the token's asks and with SELL the maximum price of the token's bids, and
   None when that side of the token's book is empty. *)
C17_BestLimitPrice ==
    (Queried /\ book_query.token \in Tokens) =>
        LET side_book == IF book_query.side = "BUY" THEN book_query.asks.ret
                         ELSE book_query.bids.ret
            prices == PricesOf(side_book)
        IN  /\ ~Raised(book_query.best)
            /\ side_book = <<>> => book_query.best.ret = None
            /\ side_book # <<>> =>
                 /\ book_query.best.ret # None
                 /\ book_query.best.ret.some \in prices
                 /\ \A p \in prices :
                      IF book_query.side = "BUY" THEN book_query.best.ret.some <= p
                      ELSE book_query.best.ret.some >= p

(* The best BUY price of token B was taken from a book with two distinct
   token-A bid prices: it is the complement of the higher bid. *)
C17_Witness ==
    /\ Queried /\ book_query.token = "B" /\ book_query.side = "BUY"
    /\ Cardinality(PricesOf(book_ms.away_team_bids)) >= 2
    /\ book_query.best = Ret(Some(One - 40))

(* C18: a query for a token outside {A, B}, with either side, ends in an error:
   get_bids, get_asks and get_best_limit_price all raise. *)
C18_InvalidTokenRejected ==
    (Queried /\ book_query.token \notin Tokens) =>
        /\ Raised(book_query.bids)
        /\ Raised(book_query.asks)
        /\ Raised(book_query.best)

(* Token C was queried for its best SELL price on a book with bids, and the
   query raised. *)
C18_Witness ==
    /\ Queried /\ book_query.token = "C" /\ book_query.side = "SELL"
    /\ book_ms.away_team_bids # <<>>
    /\ book_query.best = Raise("ValueError")

----------------------------------------------------------------------------
Larger(balances) == IF balances.A >= balances.B THEN "A" ELSE "B"

Imbalance(balances) == Abs(balances.A - balances.B)

(* C19: shutdown cancels all own orders and then emits exactly one SELL FOK, on
   the token with the larger balance, for the imbalance of the two balances. *)
C19_ShutdownNeutral ==
    (app # None /\ ~app.running) =>
        /\ Len(app.calls) = 2
        /\ app.calls[1].op = "cancel_all_orders"
        /\ app.calls[2].op = "place_order"
        /\ app.calls[2].order.side = "SELL"
        /\ app.calls[2].order.order_type = "FOK"
        /\ app.calls[2].order.token = Larger(app.snapshot.balances)
        /\ app.calls[2].order.size = Imbalance(app.snapshot.balances)

(* C20: no place batch is handed to the order manager while the snapshot says
   orders are being placed, and no cancel batch while it says orders are being
   cancelled. *)
C20_NoOverlappingBatches ==
    app # None =>
        /\ (app.op = "place_orders" /\ app.snapshot.orders_being_placed)
             => app.calls = <<>>
        /\ (app.op = "cancel_orders" /\ app.snapshot.orders_being_cancelled)
             => app.calls = <<>>

----------------------------------------------------------------------------
SameMarketAndScore(a, b) ==
    /\ a.score_board = b.score_board
    /\ a.market_state.away_team_bids = b.market_state.away_team_bids
    /\ a.market_state.away_team_asks = b.market_state.away_team_asks
    /\ a.market_state.own_orders = b.market_state.own_orders

Buys(orders) == SelectSeq(orders, LAMBDA o : o.side = "BUY")

Sells(orders) == SelectSeq(orders, LAMBDA o : o.side = "SELL")

(* C21: when a tick's intents are dropped before dispatch, the next tick on the
   same market and score state returns them again: every BUY returned by a tick
   is returned by the following tick when its book, own orders and score board
   are those of the tick before. get_orders is not told whether its intents were
   dispatched, so this is a property of two consecutive calls. *)
C21_DroppedIntentsRederived ==
    [][(arg # None /\ SameMarketAndScore(arg, arg'))
        => \A i \in 1..Len(ret_place) :
             ret_place[i].side = "BUY"
               => \E j \in 1..Len(ret_place') : ret_place'[j] = ret_place[i]]_vars

(* C22: every get_orders call appends exactly one record to the file, the full
   state of that tick with its intents; the records before it are unchanged and
   the state records are in tick order. *)
C22_AuditTrail ==
    [][/\ Len(audit_file') = Len(audit_file) + 1
       /\ SubSeq(audit_file', 1, Len(audit_file)) = audit_file
       /\ audit_file'[Len(audit_file')] = state'
       /\ state'.market_state.timestamp = arg'.market_state.timestamp
       /\ state'.score_board = arg'.score_board
       /\ state'.market_state.orders_to_place = ret_place'
       /\ Len(audit_file) >= 2 =>
            audit_file[Len(audit_file)].market_state.timestamp
              < state'.market_state.timestamp]_vars

(* Three ticks were recorded after the header; the record of an earlier tick
   that returned a BUY is still in its place. *)
C22_Witness ==
    /\ Len(audit_file) = 4
    /\ audit_file[1] = EmptyListRecord
    /\ audit_file[3].market_state.orders_to_place # <<>>
    /\ audit_file[4] = state
    /\ audit_file[3].market_state.timestamp < audit_file[4].market_state.timestamp

NoBetStep ==
    /\ Buys(ret_place') = <<>>
    /\ reset = None => reset' = None
    /\ reset # None => (reset' = None \/ reset' = reset)

(* C24 (as stated): a tick whose score board equals the score board of the tick
   before returns no BUY, installs no reset and does not enlarge the pending
   one. *)
C24_OnlyScoreChangesOpen ==
    [][(arg # None /\ arg'.score_board = arg.score_board) => NoBetStep]_vars

(* C24 (amended): the same for a score board whose game_time does not contain
   "Final". *)
C24_OnlyLiveScoreChangesOpen ==
    [][(arg # None /\ arg'.score_board = arg.score_board
        /\ ~Contains(arg'.score_board.game_time, "Final")) => NoBetStep]_vars

(* A live tied board left a reset for A untouched that was installed with one
   BUY exactly one time unit earlier. The tick before is then the one at
   TickTime - TimeUnit, it fired for A, and it can only have done so on this
   same board: from any board with A ahead the present tie would have fired
   for B. *)
C24_Witness ==
    /\ state # None /\ favored = NoToken
    /\ state.score_board =
         [away_score |-> MaxScore, home_score |-> MaxScore, game_time |-> LiveTime]
    /\ reset = OrderReset(TickTime + reset_delay - TimeUnit, "A", order_size)
    /\ ret_place = <<>>

(* C25 (as stated): on every tick where a signal fires for X and no reset is
   pending, the reset {tick timestamp + reset_delay, X, signal size} is pending
   when get_orders returns. *)
C25_ResetInstalledAlways ==
    [][(reset = None /\ favored' # NoToken)
        => reset' = OrderReset(TickTime' + reset_delay, favored', order_size)]_vars

(* C25 (amended): the same on every tick where the signal's BUY is built, that
   is where X has an ask; the size is the size of that BUY. *)
C25_ResetInstalled ==
    [][(reset = None /\ favored' # NoToken /\ HasAsk(arg', favored'))
        => /\ Len(ret_place') = 1
           /\ reset' = OrderReset(TickTime' + reset_delay, favored',
                                  ret_place'[1].size)]_vars

(* A reset of one order size with this tick's trigger is pending and the tick
   returned the BUY alone: nothing was pending before (a merge would have added
   to the size, an early consumption would have returned a flatten). *)
C25_Witness ==
    /\ state # None /\ favored = "B"
    /\ ret_place = <<Order(order_size, One - 40, "BUY", "B", "GTC")>>
    /\ reset = OrderReset(TickTime + reset_delay, "B", order_size)

AskPricesOf(st, token) ==
    IF token = "A" THEN PricesOf(st.market_state.away_team_asks)
    ELSE {One - p : p \in PricesOf(st.market_state.away_team_bids)}

Least(S) == CHOOSE x \in S : \A y \in S : x <= y

(* C26: a tick whose signal favors X returns exactly one BUY when X has an ask,
   a GTC of the order size at the lowest ask of X, first in the list, and no
   BUY when X has no ask; a tick without signal returns no BUY. *)
C26_OpeningOrder ==
    [][/\ (favored' # NoToken /\ AskPricesOf(arg', favored') # {})
            => /\ Buys(ret_place') =
                    <<Order(order_size, Least(AskPricesOf(arg', favored')),
                            "BUY", favored', "GTC")>>
               /\ ret_place'[1].side = "BUY"
       /\ (favored' # NoToken /\ AskPricesOf(arg', favored') = {})
            => Buys(ret_place') = <<>>
       /\ favored' = NoToken => Buys(ret_place') = <<>>]_vars

(* A signal for A on a book with several ask levels returned one GTC BUY at
   the lowest of them. *)
C26_Witness ==
    /\ state # None /\ favored = "A"
    /\ Cardinality(PricesOf(state.market_state.away_team_asks)) >= 2
    /\ Buys(ret_place) = <<Order(order_size, 60, "BUY", "A", "GTC")>>

(* C27: a tick consumes at most one reset; when it consumes the reset on Y its
   cancel list holds exactly the orders of the own_orders snapshot on Y, each
   once, and a tick without consumption returns an empty cancel list. *)
C27_CancelExactly ==
    [][LET sells == Sells(ret_place')
           own == arg'.market_state.own_orders.orders
       IN  /\ Len(sells) <= 1
           /\ sells = <<>> => ret_cancel' = <<>>
           /\ sells # <<>> =>
                /\ reset # None /\ sells[1].token = reset.token
                /\ \A j \in 1..Len(own) :
                     (own[j].token = reset.token)
                       <=> \E i \in 1..Len(ret_cancel') : ret_cancel'[i] = own[j]
                /\ \A i \in 1..Len(ret_cancel') :
                     \E j \in 1..Len(own) : own[j] = ret_cancel'[i]
                /\ Len(ret_cancel') =
                     Cardinality({j \in 1..Len(own) : own[j].token = reset.token})]_vars

(* A reset on B expired in a tick whose snapshot holds orders on both tokens:
   the B orders are cancelled, the A orders are not. *)
C27_Witness ==
    /\ state # None /\ favored = NoToken
    /\ Len(ret_place) = 1 /\ IsFlatten(ret_place[1], "B")
    /\ Len(ret_cancel) >= 1
    /\ Len(ret_cancel) < Len(state.market_state.own_orders.orders)
    /\ \A i \in 1..Len(ret_cancel) : ret_cancel[i].token = "B"

(* C28: after every get_orders call the remembered state is the state passed
   to the call, and the signal of a call is computed against the state passed
   to the call before. *)
C28_PreviousStateUpdated ==
    [][/\ state' # None
       /\ state'.score_board = arg'.score_board
       /\ state'.market_state.timestamp = arg'.market_state.timestamp
       /\ SameMarketAndScore(state', arg')
       /\ favored' = GetFavoredToken(arg, arg').ret]_vars

(* A tick whose signal was skipped for lack of a price, returning nothing, is
   remembered. *)
C28_Witness ==
    /\ state # None /\ file_len >= 2
    /\ favored # NoToken
    /\ ret_place = <<>> /\ ret_cancel = <<>>
    /\ state.score_board = arg.score_board
    /\ state.market_state.timestamp = arg.market_state.timestamp

(* Line 233 binds self.state to the object passed in: after the call the
   caller's object is the remembered state. *)
InputAfterCall == state

(* C29: get_orders leaves the state it receives as it was on entry. *)
C29_InputNotMutated == [][InputAfterCall' = arg']_vars

Overdue == reset # None /\ reset.trigger_timestamp <= TickTime'

Flattened == \E i \in 1..Len(ret_place') : IsFlatten(ret_place'[i], reset.token)

(* C30 (as stated): a reset pending when get_orders returns has its trigger
   strictly after the tick's timestamp, and a reset already due at the start of
   a tick is consumed during the tick, whether or not a signal fired. *)
C30_OverdueAlwaysConsumed ==
    [][/\ reset' # None => reset'.trigger_timestamp > TickTime'
       /\ Overdue => Flattened]_vars

MergedInto == favored' = reset.token /\ HasAsk(arg', favored')

(* C30 (amended): a reset pending when get_orders returns has its trigger
   strictly after the tick's timestamp; a reset already due at the start of a
   tick is consumed during the tick unless the tick's signal favors the reset's
   own token and its BUY is built, in which case the reset is not consumed but
   merged and takes the trigger tick timestamp + reset_delay. *)
C30_NoOverdueSurvives ==
    [][/\ reset' # None => reset'.trigger_timestamp > TickTime'
       /\ (Overdue /\ ~MergedInto) =>
            /\ Flattened
            /\ reset' = None \/ reset'.token # reset.token
       /\ (Overdue /\ MergedInto) =>
            /\ Sells(ret_place') = <<>>
            /\ reset' = OrderReset(TickTime' + reset_delay, reset.token,
                                   reset.size + order_size)]_vars

(* A signal fired for the token of a due reset, the BUY was skipped for lack of
   an ask, and the tick flattened the token and cleared the reset. *)
C30_Witness ==
    /\ state # None /\ favored # NoToken
    /\ Len(ret_place) = 1 /\ IsFlatten(ret_place[1], favored)
    /\ reset = None

(* C23: every get_scoreboard call ends by returning a ScoreBoard or None,
   never by raising to its caller. *)
C23_FeedNeverRaises ==
    score_feed # None =>
        \A i \in 1..Len(score_feed.results) : ~Raised(score_feed.results[i])

----------------------------------------------------------------------------
(* C31: in a tick's place list a BUY comes before any SELL, and the signal is
   handled before the expiry check: a pending reset of the favored token is
   merged and not flattened even when it is due, and a pending reset of the
   other token is flattened by the early consumption, right after the BUY, and
   by nothing else. *)
C31_SignalFirst ==
    [][/\ \A i, j \in 1..Len(ret_place') :
            (ret_place'[i].side = "BUY" /\ ret_place'[j].side = "SELL") => i < j
       /\ (reset # None /\ favored' # NoToken /\ HasAsk(arg', favored')) =>
            IF reset.token = favored'
            THEN /\ Len(ret_place') = 1
                 /\ IsBuy(ret_place'[1], favored')
            ELSE /\ Len(ret_place') = 2
                 /\ IsBuy(ret_place'[1], favored')
                 /\ IsFlatten(ret_place'[2], reset.token)
                 /\ reset' = OrderReset(TickTime' + reset_delay, favored',
                                        order_size)]_vars

(* A signal for B found a reset for A pending: the list is the BUY of B, then
   the flatten of A. *)
C31_Witness ==
    /\ state # None /\ favored = "B"
    /\ Len(ret_place) = 2
    /\ ret_place[1].side = "BUY" /\ ret_place[1].token = "B"
    /\ ret_place[2].side = "SELL" /\ ret_place[2].token = "A"

(* C32: the list synchronize treats as cancel intents is the strategy's cancel
   list and the list it treats as place intents is the strategy's place
   list. *)
C32_IntentsNotSwapped ==
    LET got == SynchronizeUnpack(GetOrdersReturn(ret_place, ret_cancel))
    IN  /\ got.orders_to_cancel = ret_cancel
        /\ got.orders_to_place = ret_place

NonIncreasing(book) ==
    \A i \in 1..Len(book) : \A j \in i..Len(book) : book[i].price >= book[j].price

NonDecreasing(book) ==
    \A i \in 1..Len(book) : \A j \in i..Len(book) : book[i].price <= book[j].price

Assembled == mgr_tick # None /\ mgr_tick.market_state # None

(* C33: in every MarketState assembled by get_market_state the token-A bids are
   in non-increasing and the asks in non-decreasing price order, the first
   entry of a side carries its best price, and the two sides together hold
   every entry of the fetched book and of the own orders merged into it. *)
C33_SortedBook ==
    Assembled =>
        LET ms == mgr_tick.market_state
        IN  /\ NonIncreasing(ms.away_team_bids)
            /\ NonDecreasing(ms.away_team_asks)
            /\ ms.away_team_bids # <<>> =>
                 \A p \in PricesOf(ms.away_team_bids) :
                    ms.away_team_bids[1].price >= p
            /\ ms.away_team_asks # <<>> =>
                 ms.away_team_asks[1].price = Least(PricesOf(ms.away_team_asks))
            /\ Len(ms.away_team_bids) + Len(ms.away_team_asks)
                 = Len(mgr_tick.market_book.ret.bids)
                   + Len(mgr_tick.market_book.ret.asks)
                   + Len(mgr_tick.own_book.orders.some)

(* A book fetched out of order was merged with two own orders priced below its
   asks: the own orders lead the sorted side. *)
C33_Witness ==
    /\ Assembled
    /\ ~Raised(mgr_tick.book_fetch) /\ mgr_tick.book_fetch # None
    /\ ~NonDecreasing(mgr_tick.book_fetch.ret.asks)
    /\ Len(mgr_tick.own_book.orders.some) = 2
    /\ Len(mgr_tick.market_state.away_team_asks) >= 4
    /\ mgr_tick.market_state.away_team_asks[1].price = 45

RECURSIVE SumSizes(_)
SumSizes(orders) ==
    IF orders = <<>> THEN 0 ELSE orders[1].size + SumSizes(Tail(orders))

BoughtOf(orders, token) ==
    SumSizes(SelectSeq(orders, LAMBDA o : o.side = "BUY" /\ o.token = token))

(* C35: a reset is installed or grown only in a tick that returns a BUY for
   its token; installed, its size is the size bought in that tick, and each
   later tick adds to it exactly the size it buys of that token, so between
   ticks the size is the sum bought since the installation. *)
C35_ResetSizeMatchesBought ==
    [][/\ (reset' # None /\ reset' # reset) =>
            /\ BoughtOf(ret_place', reset'.token) > 0
            /\ reset'.size =
                 (IF reset # None /\ reset.token = reset'.token
                  THEN reset.size ELSE 0) + BoughtOf(ret_place', reset'.token)
       /\ (reset' # None /\ reset' = reset) =>
            BoughtOf(ret_place', reset.token) = 0]_vars

(* A reset grown twice: three BUYs of its token were returned since it was
   installed, the last one in this tick. *)
C35_Witness ==
    /\ state # None /\ reset # None
    /\ reset.size = 3 * order_size
    /\ BoughtOf(ret_place, reset.token) = order_size

Margin(sb, token) ==
    IF token = "A" THEN sb.away_score - sb.home_score
    ELSE sb.home_score - sb.away_score

Fired == Compared /\ ~IsFinal /\ ~Raised(sig_result) /\ sig_result.ret # NoToken

(* C38 (as stated): whenever a signal fires outside game end with favored
   token X, the margin of X's team is strictly larger in the new score board
   than in the previous one. *)
C38_FavoredGainedMargin ==
    Fired => Margin(sig_new.score_board, sig_result.ret)
               > Margin(sig_old.score_board, sig_result.ret)

(* C38 (amended): whenever a signal fires outside game end with favored token
   A the away score is strictly larger than before; with favored token B the
   home score is strictly larger and the away score is not, so the margin of B
   is strictly larger. A is favored whenever the away team scored, also when
   the home team gained more. *)
C38_FavoredScored ==
    /\ (Fired /\ sig_result.ret = "A") => AwayDiff > 0
    /\ (Fired /\ sig_result.ret = "B") =>
         /\ HomeDiff > 0 /\ AwayDiff <= 0
         /\ Margin(sig_new.score_board, "B") > Margin(sig_old.score_board, "B")
    /\ (Compared /\ ~IsFinal /\ AwayDiff > 0 /\ DiffInDiff >= 2 /\ OldDiff = 0)
         => sig_result = Ret("A")

(* Both teams scored, the home team more: the signal favors A although its
   margin shrank. *)
C38_Witness ==
    /\ Fired /\ sig_result.ret = "A"
    /\ HomeDiff > AwayDiff
    /\ Margin(sig_new.score_board, "A") < Margin(sig_old.score_board, "A")

(* C39: every get_orders call returns at most one BUY and at most one SELL,
   cancels no order twice, and never returns a BUY and a SELL for the same
   token. *)
C39_PerTickBound ==
    [][/\ Len(Buys(ret_place')) <= 1
       /\ Len(Sells(ret_place')) <= 1
       /\ Len(ret_place') = Len(Buys(ret_place')) + Len(Sells(ret_place'))
       /\ \A i, j \in 1..Len(ret_cancel') :
            i # j => ret_cancel'[i] # ret_cancel'[j]
       /\ \A i, j \in 1..Len(ret_place') :
            (ret_place'[i].side = "BUY" /\ ret_place'[j].side = "SELL")
              => ret_place'[i].token # ret_place'[j].token]_vars

(* The largest output: one BUY of A, one flatten of B and the cancellation of
   several B orders. *)
C39_Witness ==
    /\ state # None
    /\ Len(ret_place) = 2
    /\ IsBuy(ret_place[1], "A")
    /\ IsFlatten(ret_place[2], "B")
    /\ Len(ret_cancel) >= 1

(* C37: a tick that aborts does not call the strategy and leaves its
   remembered state, its pending reset and its file as they were; the next
   processed tick computes its signal against the last processed state and
   consumes the pending reset once it is due. *)
C37_AbortLeavesStrategy ==
    [][/\ mgr_tick'.aborted =>
            /\ ~mgr_tick'.strategy_invoked
            /\ state' = state /\ reset' = reset /\ file_len' = file_len
       /\ ~mgr_tick'.aborted =>
            /\ mgr_tick'.strategy_invoked
            /\ state' # None /\ file_len' = file_len + 1
            /\ favored' = GetFavoredToken(state, arg').ret
            /\ (reset # None /\ favored' = NoToken
                /\ reset.trigger_timestamp <= TickTime') =>
                 /\ reset' = None
                 /\ Len(ret_place') = 1
                 /\ IsFlatten(ret_place'[1], reset.token)]_vars

(* The tick after an aborted one was processed: it found the reset for A that
   was pending before the abort and flattened it. *)
C37_Witness ==
    /\ mgr_tick # None /\ ~mgr_tick.aborted /\ mgr_tick.after_abort
    /\ favored = NoToken /\ reset = None
    /\ Len(ret_place) = 1 /\ IsFlatten(ret_place[1], "A")

(* C36: whenever a reset is pending for a token, a later tick returns the
   flatten SELL of that token, whatever signals arrive in between. *)
C36_EveryResetExpires ==
    \A t \in Tokens :
        (reset # None /\ reset.token = t)
            ~> (\E i \in 1..Len(ret_place) : IsFlatten(ret_place[i], t))

Failed(tried) == {i \in 1..Len(tried) : tried[i] # "ok"}

RetryBounded ==
    LET tried == driver_init.tried
        failures == Cardinality(Failed(tried))
    IN  /\ Len(tried) <= max_attempts
        /\ driver_init.attempt =
             IF driver_init.pc = "except" THEN failures - 1 ELSE failures
        /\ \A i \in 1..Len(tried) :
             tried[i] = "ok" => (i = Len(tried) /\ driver_init.pc = "returned")
        /\ driver_init.pc = "returned" =>
             /\ tried # <<>> /\ tried[Len(tried)] = "ok"
             /\ driver_init.driver = "ready"
        /\ driver_init.pc = "raised" <=>
             (failures = max_attempts /\ driver_init.pc # "except")

(* C40: initialize_driver makes at most max_attempts attempts, returns at the
   first attempt that succeeds, raises exactly when max_attempts attempts in a
   row failed, and every call ends. *)
C40_RetryTerminates ==
    /\ [](driver_init # None => RetryBounded)
    /\ <>(driver_init # None /\ driver_init.pc \in {"returned", "raised"})

(* Two attempts failed and the last allowed attempt succeeded. *)
C40_Witness ==
    /\ driver_init # None
    /\ driver_init.pc = "returned"
    /\ Len(driver_init.tried) = max_attempts
    /\ driver_init.attempt = max_attempts - 1

SizeMatchesFired ==
    IF race.reset = None THEN race.fired = 0
    ELSE race.reset.size = race.fired

(* C34: as long as no get_orders call began while another was in progress the
   pending reset's size is the sum of the sizes of the signals fired since it
   was installed; the witness below is the state two interleaved calls
   reach. *)
C34_SequentialKeepsSum ==
    (race # None /\ ~race.overlapped) => SizeMatchesFired

(* Two calls interleaved and both have returned: the pending reset's size is
   smaller than the sum of the signals fired since it was installed. *)
C34_Witness ==
    /\ race # None /\ race.overlapped
    /\ \A t \in Callers : race.caller[t].pc = "idle"
    /\ race.reset # None
    /\ race.reset.size < race.fired

====
